---------------------------- MODULE Spec2Model ----------------------------
(***************************************************************************)
(* A model of the stm32f3-rtc driver: the Rtc configurator (clock source,  *)
(* prescalers, start_clock), the register protection protocol (write       *)
(* protection keys, initialization mode), the BCD codec, the time/date     *)
(* accessors, delay, and the wakeup timer with its interrupt service       *)
(* routine.                                                                *)
(*                                                                         *)
(* The foreground program is one thread of control whose position is pc;   *)
(* every register access of a driver function is one step.  The peripheral *)
(* is the environment: it answers the flags the driver polls, advances the *)
(* calendar and fires the wakeup timer.  The interrupt service routine     *)
(* preempts the foreground between two of its steps.                       *)
(*                                                                         *)
(* The register bank is read-current-value / write-new-value: a write      *)
(* always lands.  The state of the write lock (RTC_WPR) and of             *)
(* initialization mode is kept beside it, and every logged write records   *)
(* both as they are when the write is made.                                *)
(***************************************************************************)
EXTENDS Integers, Sequences, FiniteSets, TLC

VARIABLES
    self,      \* the Rtc struct: source, prediv, default
    wk,        \* the WakeupManager builder, or NoManager
    INSTANCE_, \* static mut INSTANCE: the interrupt callback slot
    rtc,       \* the RTC register bank (and the state of its write lock)
    rcc,       \* the RCC fields start_clock touches
    pwr,       \* PWR.CR.DBP
    exti,      \* EXTI line 20 and the NVIC mask of RTC_WKUP
    pc,        \* position of the foreground program
    arg,       \* arguments and locals of the running foreground call
    ret,       \* what the last finished foreground call returned
    opLog,     \* register writes of the running (or last) foreground call
    isr,       \* position and register writes of the interrupt handler
    override,  \* the arguments of the last set_prescalers call and whether
               \* set_clock_source was called since, or NoOverride
    ticks,     \* calendar ticks so far
    fires      \* wakeup timer expiries so far

vars == <<self, wk, INSTANCE_, rtc, rcc, pwr, exti, pc, arg, ret, opLog, isr,
          override, ticks, fires>>

---------------------------------------------------------------------------
(* Bounds of the model *)

\* set_prescalers is tried with a in 0..MaxPredivA and s in 0..MaxPredivS
MaxPredivA == 1
MaxPredivS == 1
\* calendar ticks and wakeup expiries in one behaviour
MaxTicks == 2
MaxFires == 2
\* set_counter is tried with ReloadBase .. ReloadBase + MaxReloadStep
MaxReloadStep == 1
\* set_interrupt_handler is tried with handlers 1 .. MaxHandlers
MaxHandlers == 1
\* delay is tried with 0 .. MaxDelay seconds (and with the values around its
\* ceiling)
MaxDelay == 3

---------------------------------------------------------------------------
(* Program constants *)

UnlockKey0 == 202      \* 0xCA
UnlockKey1 == 83       \* 0x53
LockKey == 192         \* 0xC0
Century == 2000
MaxYear == 2154
DefaultReload == 360
DelayCeiling == 86390
DayLength == 86400
ReloadBase == 200

Kinds == {"LSI", "LSE", "HSE"}

\* ClockSource: LSI, LSE(bool), HSE(bool)
ClockSource == {[kind |-> "LSI", bypass |-> FALSE]}
                 \cup [kind : {"LSE", "HSE"}, bypass : BOOLEAN]

\* the default prescaler pair set_clock_source and new install per source
DefaultPrediv(kind) ==
    CASE kind = "LSI" -> [a |-> 127, s |-> 319]
      [] kind = "LSE" -> [a |-> 127, s |-> 255]
      [] kind = "HSE" -> [a |-> 200, s |-> 60000]

\* the oscillator frequency each default is documented to be for
NominalHz(kind) ==
    CASE kind = "LSI" -> 40000
      [] kind = "LSE" -> 32768
      [] kind = "HSE" -> 12000000

\* Frequency = (PREDIV_A + 1) * (PREDIV_S + 1)
Frequency(p) == (p.a + 1) * (p.s + 1)

\* WakeupRtcDivision and get_bits
WakeupRtcDivision ==
    {"RtcDiv16", "RtcDiv8", "RtcDiv4", "RtcDiv2", "RtcNoDiv", "RtcOffset"}

get_bits(d) ==
    CASE d = "RtcDiv16" -> 0
      [] d = "RtcDiv8" -> 1
      [] d = "RtcDiv4" -> 2
      [] d = "RtcDiv2" -> 3
      [] d = "RtcNoDiv" -> 4
      [] d = "RtcOffset" -> 6

\* the code wucksel().clock_spare() writes
ClockSpare == 4

\* RtcInterrupt: output selection (0..3) and polarity (High = 0, Low = 1)
RtcInterruptNew == [output_selection |-> 0, polarity |-> 0]
RtcInterrupts == [output_selection : {0, 3}, polarity : {0, 1}]

NoManager == [on |-> FALSE]
NoHandler == 0
NoRet == [op |-> "none"]
NoArg == [op |-> "none"]
NoOverride == [set |-> FALSE, selected |-> FALSE]

---------------------------------------------------------------------------
(* BCD codec (datetime.rs) *)

\* bcd_encode splitting its argument into hexadecimal digits
bcd_encode_hex(v) ==
    IF v = 0 THEN [tens |-> 0, units |-> 0]
    ELSE [tens |-> v \div 16, units |-> v % 16]

bcd_encode(v) ==
    IF v = 0 THEN [tens |-> 0, units |-> 0]
    ELSE [tens |-> v \div 10, units |-> v % 10]

bcd_decode(b) ==
    IF b.tens = 0 /\ b.units = 0 THEN 0
    ELSE (b.tens * 10) + b.units

\* impl From<Time> for BcdTime
BcdTimeFrom(t) ==
    [hour |-> bcd_encode(t.hour), minutes |-> bcd_encode(t.minute),
     seconds |-> bcd_encode(t.second)]

\* BcdTime::time
BcdTimeTime(b) ==
    [hour |-> bcd_decode(b.hour), minute |-> bcd_decode(b.minutes),
     second |-> bcd_decode(b.seconds)]

\* From<Date> clamping an out-of-range year to the nearer end of the range
BcdDateFrom_nearest(d) ==
    LET year == IF d.year < Century THEN Century
                ELSE IF d.year > MaxYear THEN MaxYear ELSE d.year
    IN [d |-> bcd_encode(d.day), m |-> bcd_encode(d.month),
        y |-> bcd_encode(year - Century)]

\* impl From<Date> for BcdDate
BcdDateFrom(d) ==
    LET year == IF d.year < Century \/ d.year > MaxYear THEN Century ELSE d.year
    IN [d |-> bcd_encode(d.day), m |-> bcd_encode(d.month),
        y |-> bcd_encode(year - Century)]

\* BcdDate::date
BcdDateDate(b) ==
    [day |-> bcd_decode(b.d), month |-> bcd_decode(b.m),
     year |-> bcd_decode(b.y) + Century]

---------------------------------------------------------------------------
(* The peripheral after reset, the driver after Rtc::new *)

\* Rtc::new
RtcNew ==
    [source |-> [kind |-> "LSI", bypass |-> FALSE],
     prediv |-> [a |-> 127, s |-> 319],
     default |-> TRUE]

TrReset == [ht |-> 0, hu |-> 0, mnt |-> 0, mnu |-> 0, st |-> 0, su |-> 0]
DrReset == [dt |-> 0, du |-> 1, mt |-> FALSE, mu |-> 1, yt |-> 0, yu |-> 0]

RtcReset ==
    [wpr |-> 0, lock |-> "locked",
     init |-> FALSE, initf |-> FALSE, wutwf |-> TRUE, wutf |-> FALSE,
     fmt |-> FALSE, wute |-> FALSE, wutie |-> FALSE, wucksel |-> 0,
     osel |-> 0, pol |-> FALSE,
     prediv_a |-> 127, prediv_s |-> 255,
     tr |-> TrReset, dr |-> DrReset, wut |-> 65535]

RccReset ==
    [lsion |-> FALSE, lsirdy |-> FALSE,
     lseon |-> FALSE, lsebyp |-> FALSE, lserdy |-> FALSE,
     hseon |-> FALSE, hsebyp |-> FALSE, hserdy |-> FALSE,
     pwren |-> FALSE, bdrst |-> FALSE, rtcsel |-> "none", rtcen |-> FALSE]

Init ==
    /\ self = RtcNew
    /\ wk = NoManager
    /\ INSTANCE_ = NoHandler
    /\ rtc = RtcReset
    /\ rcc = RccReset
    /\ pwr = [dbp |-> FALSE]
    /\ exti = [mr20 |-> FALSE, tr20 |-> FALSE, pr20 |-> FALSE, nvic |-> FALSE]
    /\ pc = "idle"
    /\ arg = NoArg
    /\ ret = NoRet
    /\ opLog = <<>>
    /\ isr = [pc |-> "idle", log |-> <<>>, slot |-> NoHandler]
    /\ override = NoOverride
    /\ ticks = 0
    /\ fires = 0

\* Rtc::new on a peripheral that a reset of the processor alone has not
\* reset: the RTC is in the backup domain, and initialization mode is as the
\* program that ran before left it
InitWarm ==
    /\ self = RtcNew
    /\ wk = NoManager
    /\ INSTANCE_ = NoHandler
    /\ \E b \in BOOLEAN : rtc = [RtcReset EXCEPT !.init = b, !.initf = b]
    /\ rcc = RccReset
    /\ pwr = [dbp |-> FALSE]
    /\ exti = [mr20 |-> FALSE, tr20 |-> FALSE, pr20 |-> FALSE, nvic |-> FALSE]
    /\ pc = "idle"
    /\ arg = NoArg
    /\ ret = NoRet
    /\ opLog = <<>>
    /\ isr = [pc |-> "idle", log |-> <<>>, slot |-> NoHandler]
    /\ override = NoOverride
    /\ ticks = 0
    /\ fires = 0

---------------------------------------------------------------------------
(* Steps of the foreground program *)

\* a register write as the log keeps it: the field, the value, and the state
\* of the write lock and of initialization mode when the write is made
Write(reg, val) ==
    [reg |-> reg, val |-> val, lock |-> rtc.lock,
     init |-> rtc.init /\ rtc.initf]

Log(reg, val) == opLog' = Append(opLog, Write(reg, val))

\* the foreground runs at label l: the handler is not running
At(l) == pc = l /\ isr.pc = "idle"

Call(entry, a) ==
    /\ At("idle")
    /\ pc' = entry
    /\ arg' = a
    /\ ret' = NoRet
    /\ opLog' = <<>>

Return(r) ==
    /\ pc' = "idle"
    /\ ret' = r
    /\ arg' = NoArg

\* the write lock of RTC_WPR: the two keys in order unlock, anything else locks
WprLock(lock, key) ==
    IF lock = "key0" /\ key = UnlockKey1 THEN "unlocked"
    ELSE IF key = UnlockKey0 THEN "key0"
    ELSE "locked"

WprWrite(key) ==
    /\ rtc' = [rtc EXCEPT !.wpr = key, !.lock = WprLock(rtc.lock, key)]
    /\ Log("WPR", key)

---------------------------------------------------------------------------
(* Rtc: clock source and prescalers (rtc.rs) *)

\* set_clock_source without the early return on an explicit override
set_clock_source_clobbers(s, src) ==
    [s EXCEPT !.source = src, !.prediv = DefaultPrediv(src.kind)]

set_clock_source(s, src) ==
    IF ~s.default THEN [s EXCEPT !.source = src]
    ELSE [s EXCEPT !.source = src, !.prediv = DefaultPrediv(src.kind)]

\* set_prescalers that leaves the default flag as it is
set_prescalers_keeps_default(s, a, b) ==
    [s EXCEPT !.prediv = [a |-> a, s |-> b]]

set_prescalers(s, a, b) ==
    [s EXCEPT !.default = FALSE, !.prediv = [a |-> a, s |-> b]]

SetClockSource(src) ==
    /\ At("idle")
    /\ self' = set_clock_source(self, src)
    /\ ret' = [op |-> "set_clock_source", source |-> src,
               overridden |-> override.set, before |-> self.prediv]
    /\ override' = IF override.set THEN [override EXCEPT !.selected = TRUE]
                   ELSE override
    /\ opLog' = <<>>
    /\ UNCHANGED <<wk, INSTANCE_, rtc, rcc, pwr, exti, pc, arg, isr, ticks,
                   fires>>

SetPrescalers(a, b) ==
    /\ At("idle")
    /\ self' = set_prescalers(self, a, b)
    /\ override' = [set |-> TRUE, selected |-> FALSE, a |-> a, s |-> b]
    /\ ret' = [op |-> "set_prescalers", a |-> a, s |-> b]
    /\ opLog' = <<>>
    /\ UNCHANGED <<wk, INSTANCE_, rtc, rcc, pwr, exti, pc, arg, isr, ticks,
                   fires>>

---------------------------------------------------------------------------
(* Rtc::start_clock: enable_clock_source, enable_bdr, enable_rtc, the FMT  *)
(* bit, set_prediv                                                         *)

StartClock ==
    /\ Call("sc_osc_on", [op |-> "start_clock"])
    /\ UNCHANGED <<self, wk, INSTANCE_, rtc, rcc, pwr, exti, isr, override,
                   ticks, fires>>

\* enable_clock_source: switch the selected oscillator on
ScOscOn ==
    /\ At("sc_osc_on")
    /\ rcc' = CASE self.source.kind = "LSI" -> [rcc EXCEPT !.lsion = TRUE]
                [] self.source.kind = "LSE" ->
                     [rcc EXCEPT !.lseon = TRUE, !.lsebyp = self.source.bypass]
                [] self.source.kind = "HSE" ->
                     [rcc EXCEPT !.hseon = TRUE, !.hsebyp = self.source.bypass]
    /\ Log(CASE self.source.kind = "LSI" -> "RCC.CSR.LSION"
             [] self.source.kind = "LSE" -> "RCC.BDCR.LSEON"
             [] self.source.kind = "HSE" -> "RCC.CR.HSEON", TRUE)
    /\ pc' = "sc_osc_wait"
    /\ UNCHANGED <<self, wk, INSTANCE_, rtc, pwr, exti, arg, ret, isr,
                   override, ticks, fires>>

\* the ready flag enable_clock_source polls
SourceReady(kind) ==
    CASE kind = "LSI" -> rcc.lsirdy
      [] kind = "LSE" -> rcc.lserdy
      [] kind = "HSE" -> rcc.hserdy

\* enable_clock_source ending its busy-wait on the ready flag of any source
ScOscWait_any ==
    /\ At("sc_osc_wait")
    /\ rcc.lsirdy \/ rcc.lserdy \/ rcc.hserdy
    /\ pc' = "sc_pwren"
    /\ UNCHANGED <<self, wk, INSTANCE_, rtc, rcc, pwr, exti, arg, ret, opLog,
                   isr, override, ticks, fires>>

\* enable_clock_source: the busy-wait on the ready flag ends
ScOscWait ==
    /\ At("sc_osc_wait")
    /\ SourceReady(self.source.kind)
    /\ pc' = "sc_pwren"
    /\ UNCHANGED <<self, wk, INSTANCE_, rtc, rcc, pwr, exti, arg, ret, opLog,
                   isr, override, ticks, fires>>

\* enable_bdr: the power interface clock
ScPwren ==
    /\ At("sc_pwren")
    /\ rcc' = [rcc EXCEPT !.pwren = TRUE]
    /\ Log("RCC.APB1ENR.PWREN", TRUE)
    /\ pc' = "sc_dbp"
    /\ UNCHANGED <<self, wk, INSTANCE_, rtc, pwr, exti, arg, ret, isr,
                   override, ticks, fires>>

\* enable_bdr: backup domain write access
ScDbp ==
    /\ At("sc_dbp")
    /\ pwr' = [pwr EXCEPT !.dbp = TRUE]
    /\ Log("PWR.CR.DBP", TRUE)
    /\ pc' = "sc_dbp_wait"
    /\ UNCHANGED <<self, wk, INSTANCE_, rtc, rcc, exti, arg, ret, isr,
                   override, ticks, fires>>

ScDbpWait ==
    /\ At("sc_dbp_wait")
    /\ pwr.dbp
    /\ pc' = "sc_bdrst"
    /\ UNCHANGED <<self, wk, INSTANCE_, rtc, rcc, pwr, exti, arg, ret, opLog,
                   isr, override, ticks, fires>>

\* enable_rtc without its first write of BDCR
ScBdrst_noreset ==
    /\ At("sc_bdrst")
    /\ pc' = "sc_rtcsel"
    /\ UNCHANGED <<self, wk, INSTANCE_, rtc, rcc, pwr, exti, arg, ret, opLog,
                   isr, override, ticks, fires>>

\* enable_rtc: first write of BDCR, the backup domain reset
ScBdrst ==
    /\ At("sc_bdrst")
    /\ rcc' = [rcc EXCEPT !.bdrst = TRUE]
    /\ Log("RCC.BDCR.BDRST", TRUE)
    /\ pc' = "sc_rtcsel"
    /\ UNCHANGED <<self, wk, INSTANCE_, rtc, pwr, exti, arg, ret, isr,
                   override, ticks, fires>>

\* enable_rtc: second write of BDCR: RTCSEL, RTCEN and BDRST in one write
ScRtcsel ==
    /\ At("sc_rtcsel")
    /\ rcc' = [rcc EXCEPT !.rtcsel = self.source.kind, !.rtcen = TRUE,
                          !.bdrst = FALSE]
    /\ opLog' = opLog \o <<Write("RCC.BDCR.RTCSEL", self.source.kind),
                           Write("RCC.BDCR.RTCEN", TRUE),
                           Write("RCC.BDCR.BDRST", FALSE)>>
    /\ pc' = "sc_fmt"
    /\ UNCHANGED <<self, wk, INSTANCE_, rtc, pwr, exti, arg, ret, isr,
                   override, ticks, fires>>

\* start_clock: rtc.cr.modify(|_, w| w.fmt().set_bit()), then set_prediv
ScFmt ==
    /\ At("sc_fmt")
    /\ rtc' = [rtc EXCEPT !.fmt = TRUE]
    /\ Log("CR.FMT", TRUE)
    /\ pc' = "m_key0"
    /\ arg' = [op |-> "start_clock", body |-> "PRER", value |-> self.prediv,
               next |-> "return", result |-> [op |-> "start_clock"]]
    /\ UNCHANGED <<self, wk, INSTANCE_, rcc, pwr, exti, ret, isr, override,
                   ticks, fires>>

---------------------------------------------------------------------------
(* Rtc::modify, initf and write_protection: the protection protocol        *)

\* the unlock_key field of Rtc::new
unlock_key == <<UnlockKey0, UnlockKey1>>

\* the closures with set_date's setting the month-tens flag from the units
ModifyBody_mt_units(r, body, v) ==
    CASE body = "PRER" -> [r EXCEPT !.prediv_a = v.a, !.prediv_s = v.s]
      [] body = "TR" ->
           [r EXCEPT !.tr = [ht |-> v.hour.tens, hu |-> v.hour.units,
                             mnt |-> v.minutes.tens, mnu |-> v.minutes.units,
                             st |-> v.seconds.tens, su |-> v.seconds.units]]
      [] body = "DR" ->
           [r EXCEPT !.dr = [mt |-> (v.m.units > 0),
                             dt |-> v.d.tens, du |-> v.d.units,
                             mu |-> v.m.units,
                             yt |-> v.y.tens, yu |-> v.y.units]]
      [] body = "CR.WUCKSEL" -> [r EXCEPT !.wucksel = v]

\* what the closure handed to modify writes: set_prediv (PRER), set_time
\* (TR), set_date (DR), set_wutsel (CR.WUCKSEL)
ModifyBody(r, body, v) ==
    CASE body = "PRER" -> [r EXCEPT !.prediv_a = v.a, !.prediv_s = v.s]
      [] body = "TR" ->
           [r EXCEPT !.tr = [ht |-> v.hour.tens, hu |-> v.hour.units,
                             mnt |-> v.minutes.tens, mnu |-> v.minutes.units,
                             st |-> v.seconds.tens, su |-> v.seconds.units]]
      [] body = "DR" ->
           [r EXCEPT !.dr = [mt |-> (v.m.tens > 0),
                             dt |-> v.d.tens, du |-> v.d.units,
                             mu |-> v.m.units,
                             yt |-> v.y.tens, yu |-> v.y.units]]
      [] body = "CR.WUCKSEL" -> [r EXCEPT !.wucksel = v]

\* write_protection(Disable), first key
MKey0 ==
    /\ At("m_key0")
    /\ WprWrite(unlock_key[1])
    /\ pc' = "m_key1"
    /\ UNCHANGED <<self, wk, INSTANCE_, rcc, pwr, exti, arg, ret, isr,
                   override, ticks, fires>>

\* write_protection(Disable), second key
MKey1 ==
    /\ At("m_key1")
    /\ WprWrite(unlock_key[2])
    /\ pc' = "m_init_chk"
    /\ UNCHANGED <<self, wk, INSTANCE_, rcc, pwr, exti, arg, ret, isr,
                   override, ticks, fires>>

\* initf(Start) without its test of the INIT bit
MInitChk_always ==
    /\ At("m_init_chk")
    /\ pc' = "m_init_set"
    /\ UNCHANGED <<self, wk, INSTANCE_, rtc, rcc, pwr, exti, arg, ret, opLog,
                   isr, override, ticks, fires>>

\* initf(Start): the test of the INIT bit
MInitChk ==
    /\ At("m_init_chk")
    /\ pc' = IF ~rtc.init THEN "m_init_set" ELSE "m_body"
    /\ UNCHANGED <<self, wk, INSTANCE_, rtc, rcc, pwr, exti, arg, ret, opLog,
                   isr, override, ticks, fires>>

\* initf(Start): request initialization mode
MInitSet ==
    /\ At("m_init_set")
    /\ rtc' = [rtc EXCEPT !.init = TRUE]
    /\ Log("ISR.INIT", TRUE)
    /\ pc' = "m_init_wait"
    /\ UNCHANGED <<self, wk, INSTANCE_, rcc, pwr, exti, arg, ret, isr,
                   override, ticks, fires>>

\* initf(Start) without its busy-wait on INITF
MInitWait_nowait ==
    /\ At("m_init_wait")
    /\ pc' = "m_body"
    /\ UNCHANGED <<self, wk, INSTANCE_, rtc, rcc, pwr, exti, arg, ret, opLog,
                   isr, override, ticks, fires>>

\* initf(Start): the busy-wait on INITF ends
MInitWait ==
    /\ At("m_init_wait")
    /\ rtc.initf
    /\ pc' = "m_body"
    /\ UNCHANGED <<self, wk, INSTANCE_, rtc, rcc, pwr, exti, arg, ret, opLog,
                   isr, override, ticks, fires>>

\* function(&mut self.rtc)
MBody ==
    /\ At("m_body")
    /\ rtc' = ModifyBody(rtc, arg.body, arg.value)
    /\ Log(arg.body, arg.value)
    /\ pc' = "m_exit_chk"
    /\ UNCHANGED <<self, wk, INSTANCE_, rcc, pwr, exti, arg, ret, isr,
                   override, ticks, fires>>

\* initf(Stop) with the test of the INIT bit inverted
MExitChk_inverted ==
    /\ At("m_exit_chk")
    /\ pc' = IF ~rtc.init THEN "m_exit_clr" ELSE "m_lock"
    /\ UNCHANGED <<self, wk, INSTANCE_, rtc, rcc, pwr, exti, arg, ret, opLog,
                   isr, override, ticks, fires>>

\* initf(Stop): the test of the INIT bit
MExitChk ==
    /\ At("m_exit_chk")
    /\ pc' = IF rtc.init THEN "m_exit_clr" ELSE "m_lock"
    /\ UNCHANGED <<self, wk, INSTANCE_, rtc, rcc, pwr, exti, arg, ret, opLog,
                   isr, override, ticks, fires>>

\* initf(Stop): leave initialization mode
MExitClr ==
    /\ At("m_exit_clr")
    /\ rtc' = [rtc EXCEPT !.init = FALSE]
    /\ Log("ISR.INIT", FALSE)
    /\ pc' = "m_exit_wait"
    /\ UNCHANGED <<self, wk, INSTANCE_, rcc, pwr, exti, arg, ret, isr,
                   override, ticks, fires>>

\* initf(Stop): the busy-wait on INITF ends
MExitWait ==
    /\ At("m_exit_wait")
    /\ ~rtc.initf
    /\ pc' = "m_lock"
    /\ UNCHANGED <<self, wk, INSTANCE_, rtc, rcc, pwr, exti, arg, ret, opLog,
                   isr, override, ticks, fires>>

\* write_protection(Enable); modify returns to its caller
MLock ==
    /\ At("m_lock")
    /\ WprWrite(LockKey)
    /\ IF arg.next = "return"
       THEN Return(arg.result)
       ELSE pc' = arg.next /\ UNCHANGED <<arg, ret>>
    /\ UNCHANGED <<self, wk, INSTANCE_, rcc, pwr, exti, isr, override, ticks,
                   fires>>

---------------------------------------------------------------------------
(* TimeAccess and DateAccess for Rtc *)

\* set_time is tried with these times
Times ==
    {[hour |-> 12, minute |-> 30, second |-> 10],
     [hour |-> 9, minute |-> 59, second |-> 59],
     [hour |-> 23, minute |-> 59, second |-> 58]}

\* every valid Time
ValidTimes == [hour : 0..23, minute : 0..59, second : 0..59]

\* set_date is tried with these dates
Dates ==
    {[day |-> 1, month |-> 1, year |-> 2024],
     [day |-> 31, month |-> 12, year |-> 1999]}

SetTime(t) ==
    /\ Call("m_key0", [op |-> "set_time", body |-> "TR",
                       value |-> BcdTimeFrom(t), next |-> "return",
                       result |-> [op |-> "set_time", time |-> t]])
    /\ UNCHANGED <<self, wk, INSTANCE_, rtc, rcc, pwr, exti, isr, override,
                   ticks, fires>>

SetDate(d) ==
    /\ Call("m_key0", [op |-> "set_date", body |-> "DR",
                       value |-> BcdDateFrom(d), next |-> "return",
                       result |-> [op |-> "set_date", date |-> d]])
    /\ UNCHANGED <<self, wk, INSTANCE_, rtc, rcc, pwr, exti, isr, override,
                   ticks, fires>>

\* the fields of TR in the order time() reads them, one register read each
TimeFields == <<"ht", "hu", "mnt", "mnu", "st", "su">>

\* time() building the seconds from the units and tens fields exchanged
TimeRead_swapped(f) ==
    [hour |-> [tens |-> f.ht, units |-> f.hu],
     minutes |-> [tens |-> f.mnt, units |-> f.mnu],
     seconds |-> [tens |-> f.su, units |-> f.st]]

\* the BcdTime that time() builds from the fields it has read
TimeRead(f) ==
    [hour |-> [tens |-> f.ht, units |-> f.hu],
     minutes |-> [tens |-> f.mnt, units |-> f.mnu],
     seconds |-> [tens |-> f.st, units |-> f.su]]

\* time(): seen collects the contents of TR at every instant of the call,
\* after is what the call before this one returned if that was a set_time
Time ==
    /\ Call("t_read", [op |-> "time", i |-> 1, f |-> TrReset,
                       seen |-> {rtc.tr},
                       after |-> IF ret.op = "set_time" THEN ret ELSE NoRet])
    /\ UNCHANGED <<self, wk, INSTANCE_, rtc, rcc, pwr, exti, isr, override,
                   ticks, fires>>

\* time(): self.rtc.tr.read() of the next field; after the last, .time(),
\* returned to the program or, when delay made the call, to delay (now)
TimeStep ==
    /\ At("t_read")
    /\ LET name == TimeFields[arg.i]
           f == [arg.f EXCEPT ![name] = rtc.tr[name]]
       IN IF arg.i < Len(TimeFields)
          THEN /\ arg' = [arg EXCEPT !.i = @ + 1, !.f = f]
               /\ UNCHANGED <<pc, ret>>
          ELSE IF arg.op = "time"
          THEN Return([op |-> "time", time |-> BcdTimeTime(TimeRead(f)),
                       seen |-> arg.seen, after |-> arg.after])
          ELSE /\ pc' = arg.next
               /\ arg' = [arg EXCEPT !.i = 1, !.f = TrReset,
                                     !.now = BcdTimeTime(TimeRead(f))]
               /\ UNCHANGED ret
    /\ UNCHANGED <<self, wk, INSTANCE_, rtc, rcc, pwr, exti, opLog, isr,
                   override, ticks, fires>>

---------------------------------------------------------------------------
(* Rtc::delay (rtc.rs) *)

\* Time::to_seconds
to_seconds(t) == t.hour * 3600 + t.minute * 60 + t.second

\* delay is tried with these arguments
DelaySeconds == (0..MaxDelay) \cup {DelayCeiling, DelayCeiling + 1, DayLength}

\* the locals of delay before its first statement
DelayLocals(seconds) ==
    [op |-> "delay", seconds |-> seconds, i |-> 1, f |-> TrReset,
     next |-> "dl_start", now |-> BcdTimeTime(TimeRead(TrReset)),
     time |-> BcdTimeTime(TimeRead(TrReset)), stop_sleep |-> 0,
     loop |-> 1, spun |-> FALSE]

\* delay without its test of the ceiling
Delay_nocheck(seconds) ==
    /\ Call("t_read", DelayLocals(seconds))
    /\ UNCHANGED <<self, wk, INSTANCE_, rtc, rcc, pwr, exti, isr, override,
                   ticks, fires>>

\* delay(seconds): above the ceiling it returns at once, else it calls time()
Delay(seconds) ==
    /\ At("idle")
    /\ opLog' = <<>>
    /\ IF seconds > DelayCeiling
       THEN /\ ret' = [op |-> "delay", seconds |-> seconds]
            /\ UNCHANGED <<pc, arg>>
       ELSE /\ pc' = "t_read"
            /\ arg' = DelayLocals(seconds)
            /\ ret' = NoRet
    /\ UNCHANGED <<self, wk, INSTANCE_, rtc, rcc, pwr, exti, isr, override,
                   ticks, fires>>

\* let time = self.time(); let stop_sleep = time.to_seconds() + seconds;
\* the test stop_sleep > 86400 picks the wrap branch or the polling loop
DlStart ==
    /\ At("dl_start")
    /\ LET stop_sleep == to_seconds(arg.now) + arg.seconds
       IN /\ arg' = [arg EXCEPT !.time = arg.now, !.stop_sleep = stop_sleep,
                                !.next = "dl_poll"]
          /\ pc' = IF stop_sleep > DayLength THEN "dl_wrap" ELSE "t_read"
    /\ UNCHANGED <<self, wk, INSTANCE_, rtc, rcc, pwr, exti, ret, opLog, isr,
                   override, ticks, fires>>

\* the wrap branch: while time.to_seconds() < 86400 {} and then
\* while time.to_seconds() < (stop_sleep - 86400) {}, one test of the loop
\* delay is in; time is the local DlStart set.  spun: the test has held
DlWrap ==
    /\ At("dl_wrap")
    /\ LET again == IF arg.loop = 1
                    THEN to_seconds(arg.time) < DayLength
                    ELSE to_seconds(arg.time) < arg.stop_sleep - DayLength
       IN IF again
          THEN /\ arg' = [arg EXCEPT !.spun = TRUE]
               /\ UNCHANGED <<pc, ret>>
          ELSE IF arg.loop = 1
          THEN /\ arg' = [arg EXCEPT !.loop = 2, !.spun = FALSE]
               /\ UNCHANGED <<pc, ret>>
          ELSE Return([op |-> "delay", seconds |-> arg.seconds])
    /\ UNCHANGED <<self, wk, INSTANCE_, rtc, rcc, pwr, exti, opLog, isr,
                   override, ticks, fires>>

\* while self.time().to_seconds() < stop_sleep {}: the test, on the time
\* the call of time() just returned
DlPoll ==
    /\ At("dl_poll")
    /\ IF to_seconds(arg.now) < arg.stop_sleep
       THEN pc' = "t_read" /\ UNCHANGED <<arg, ret>>
       ELSE Return([op |-> "delay", seconds |-> arg.seconds])
    /\ UNCHANGED <<self, wk, INSTANCE_, rtc, rcc, pwr, exti, opLog, isr,
                   override, ticks, fires>>

---------------------------------------------------------------------------
(* DateAccess: date() *)

\* every valid Date the year of which DR can hold, and valid dates with a
\* year it cannot: 0, the year before Century, the year after MaxYear, and
\* a year far above (2^31 - 1; the year is a u32)
OutYears == {0, Century - 1, MaxYear + 1, 2147483647}
ValidDates == [day : 1..31, month : 1..12, year : Century..MaxYear]
ClampedDates == [day : 1..31, month : 1..12, year : OutYears]

\* the fields of DR in the order date() reads them, one register read each
DateFields == <<"dt", "du", "mt", "mu", "yt", "yu">>

\* date() taking the month from its units field alone
DateRead_no_mt(f) ==
    [d |-> [tens |-> f.dt, units |-> f.du],
     m |-> [tens |-> 0, units |-> f.mu],
     y |-> [tens |-> f.yt, units |-> f.yu]]

\* the BcdDate that date() builds from the fields it has read; the month
\* tens are u8::from of the one-bit field
DateRead(f) ==
    [d |-> [tens |-> f.dt, units |-> f.du],
     m |-> [tens |-> IF f.mt THEN 1 ELSE 0, units |-> f.mu],
     y |-> [tens |-> f.yt, units |-> f.yu]]

\* date(): after is what the call before this one returned if that was a
\* set_date
Date ==
    /\ Call("d_read", [op |-> "date", i |-> 1, f |-> DrReset,
                       after |-> IF ret.op = "set_date" THEN ret ELSE NoRet])
    /\ UNCHANGED <<self, wk, INSTANCE_, rtc, rcc, pwr, exti, isr, override,
                   ticks, fires>>

\* date(): self.rtc.dr.read() of the next field; after the last, .date()
DateStep ==
    /\ At("d_read")
    /\ LET name == DateFields[arg.i]
           f == [arg.f EXCEPT ![name] = rtc.dr[name]]
       IN IF arg.i < Len(DateFields)
          THEN /\ arg' = [arg EXCEPT !.i = @ + 1, !.f = f]
               /\ UNCHANGED <<pc, ret>>
          ELSE Return([op |-> "date", date |-> BcdDateDate(DateRead(f)),
                       after |-> arg.after])
    /\ UNCHANGED <<self, wk, INSTANCE_, rtc, rcc, pwr, exti, opLog, isr,
                   override, ticks, fires>>

---------------------------------------------------------------------------
(* The peripheral and the oscillators *)

\* the RTC answers the INIT bit: INITF follows it
HwInitAck ==
    /\ rtc.initf # rtc.init
    /\ rtc' = [rtc EXCEPT !.initf = rtc.init]
    /\ UNCHANGED <<self, wk, INSTANCE_, rcc, pwr, exti, pc, arg, ret, opLog,
                   isr, override, ticks, fires>>

\* an oscillator that is switched on becomes ready
HwOscReady ==
    /\ \E k \in Kinds :
         /\ CASE k = "LSI" -> rcc.lsion /\ ~rcc.lsirdy
              [] k = "LSE" -> rcc.lseon /\ ~rcc.lserdy
              [] k = "HSE" -> rcc.hseon /\ ~rcc.hserdy
         /\ rcc' = CASE k = "LSI" -> [rcc EXCEPT !.lsirdy = TRUE]
                     [] k = "LSE" -> [rcc EXCEPT !.lserdy = TRUE]
                     [] k = "HSE" -> [rcc EXCEPT !.hserdy = TRUE]
    /\ UNCHANGED <<self, wk, INSTANCE_, rtc, pwr, exti, pc, arg, ret, opLog,
                   isr, override, ticks, fires>>

\* one second later in the BCD fields of TR
TrOfSeconds(n) ==
    LET h == bcd_encode(n \div 3600)
        m == bcd_encode((n \div 60) % 60)
        s == bcd_encode(n % 60)
    IN [ht |-> h.tens, hu |-> h.units, mnt |-> m.tens, mnu |-> m.units,
        st |-> s.tens, su |-> s.units]

SecondsOfTr(r) ==
    (r.ht * 10 + r.hu) * 3600 + (r.mnt * 10 + r.mnu) * 60 + r.st * 10 + r.su

TrNext(r) == TrOfSeconds((SecondsOfTr(r) + 1) % 86400)

\* the calendar advances by one second: the clock runs and the RTC is not
\* in initialization mode
Tick ==
    /\ ticks < MaxTicks
    /\ rcc.rtcen
    /\ ~rtc.initf
    /\ ticks' = ticks + 1
    /\ rtc' = [rtc EXCEPT !.tr = TrNext(rtc.tr)]
    /\ arg' = IF arg.op = "time"
              THEN [arg EXCEPT !.seen = @ \cup {TrNext(rtc.tr)}]
              ELSE arg
    /\ UNCHANGED <<self, wk, INSTANCE_, rcc, pwr, exti, pc, ret, opLog, isr,
                   override, fires>>

---------------------------------------------------------------------------
(* WakeupManager (wakeup.rs) *)

\* WakeupManager::new
WakeupManagerNew ==
    [on |-> TRUE, sel |-> get_bits("RtcNoDiv"), time |-> DefaultReload,
     interrupt |-> RtcInterruptNew, en_interrupt |-> FALSE]

\* set_counter is tried with these reload values
Reloads == ReloadBase .. (ReloadBase + MaxReloadStep)

\* set_interrupt_handler is tried with these handlers
Handlers == 1 .. MaxHandlers

\* the builder calls write no RTC register
Builder(name) ==
    /\ At("idle")
    /\ ret' = [op |-> name]
    /\ opLog' = <<>>
    /\ UNCHANGED <<self, rtc, rcc, pwr, pc, arg, isr, override, ticks, fires>>

GetWakeupManager ==
    /\ Builder("get_wakeup_manager")
    /\ wk' = WakeupManagerNew
    /\ UNCHANGED <<INSTANCE_, exti>>

ConfigureInterrupt(i) ==
    /\ Builder("configure_interrupt")
    /\ wk.on
    /\ wk' = [wk EXCEPT !.interrupt = i]
    /\ UNCHANGED <<INSTANCE_, exti>>

SetInterrupt(enable) ==
    /\ Builder("set_interrupt")
    /\ wk.on
    /\ wk' = [wk EXCEPT !.en_interrupt = enable]
    /\ exti' = [exti EXCEPT !.mr20 = TRUE, !.tr20 = TRUE, !.nvic = TRUE]
    /\ UNCHANGED INSTANCE_

SetInterruptHandler(function) ==
    /\ Builder("set_interrupt_handler")
    /\ INSTANCE_' = function
    /\ UNCHANGED <<wk, exti>>

SetCounter(time) ==
    /\ Builder("set_counter")
    /\ wk.on
    /\ wk' = [wk EXCEPT !.time = time]
    /\ UNCHANGED <<INSTANCE_, exti>>

SetClockDivision(division) ==
    /\ Builder("set_clock_division")
    /\ wk.on
    /\ wk' = [wk EXCEPT !.sel = get_bits(division)]
    /\ UNCHANGED <<INSTANCE_, exti>>

\* set_wutsel: the value written to CR.WUCKSEL
set_wutsel(w) == ClockSpare

\* set_time writing the reload value of WakeupManager::new
set_time_default(w) == DefaultReload

\* set_time: the value written to WUTR.WUT
set_time(w) == w.time

\* enable: the values arg keeps of the timer as the call finds it
Enable ==
    /\ wk.on
    /\ Call("en_wute_off",
            [op |-> "enable", body |-> "CR.WUCKSEL", value |-> set_wutsel(wk),
             next |-> "en_key0", result |-> NoRet,
             wute0 |-> rtc.wute, wut0 |-> rtc.wut, wutie0 |-> rtc.wutie])
    /\ UNCHANGED <<self, wk, INSTANCE_, rtc, rcc, pwr, exti, isr, override,
                   ticks, fires>>

\* cr.modify(|_, w| w.wute().disabled())
EnWuteOff ==
    /\ At("en_wute_off")
    /\ rtc' = [rtc EXCEPT !.wute = FALSE]
    /\ Log("CR.WUTE", FALSE)
    /\ pc' = "en_wait_w"
    /\ UNCHANGED <<self, wk, INSTANCE_, rcc, pwr, exti, arg, ret, isr,
                   override, ticks, fires>>

\* enable without its first busy-wait on WUTWF
EnWaitW_nowait ==
    /\ At("en_wait_w")
    /\ pc' = "m_key0"
    /\ UNCHANGED <<self, wk, INSTANCE_, rtc, rcc, pwr, exti, arg, ret, opLog,
                   isr, override, ticks, fires>>

\* the busy-wait on WUTWF ends; set_wutsel calls modify
EnWaitW ==
    /\ At("en_wait_w")
    /\ rtc.wutwf
    /\ pc' = "m_key0"
    /\ UNCHANGED <<self, wk, INSTANCE_, rtc, rcc, pwr, exti, arg, ret, opLog,
                   isr, override, ticks, fires>>

\* write_protection(Disable), first key
EnKey0 ==
    /\ At("en_key0")
    /\ WprWrite(unlock_key[1])
    /\ pc' = "en_key1"
    /\ UNCHANGED <<self, wk, INSTANCE_, rcc, pwr, exti, arg, ret, isr,
                   override, ticks, fires>>

\* write_protection(Disable), second key
EnKey1 ==
    /\ At("en_key1")
    /\ WprWrite(unlock_key[2])
    /\ pc' = "en_int"
    /\ UNCHANGED <<self, wk, INSTANCE_, rcc, pwr, exti, arg, ret, isr,
                   override, ticks, fires>>

\* enable without the wutie().disabled() arm of its match
EnInt_sets_only ==
    /\ At("en_int")
    /\ rtc' = [rtc EXCEPT !.wutie = rtc.wutie \/ wk.en_interrupt]
    /\ Log("CR.WUTIE", rtc.wutie \/ wk.en_interrupt)
    /\ pc' = IF wk.en_interrupt THEN "en_osel" ELSE "en_wutr"
    /\ UNCHANGED <<self, wk, INSTANCE_, rcc, pwr, exti, arg, ret, isr,
                   override, ticks, fires>>

\* match self.en_interrupt: the first write of enable_interrupts, or
\* wutie().disabled()
EnInt ==
    /\ At("en_int")
    /\ rtc' = [rtc EXCEPT !.wutie = wk.en_interrupt]
    /\ Log("CR.WUTIE", wk.en_interrupt)
    /\ pc' = IF wk.en_interrupt THEN "en_osel" ELSE "en_wutr"
    /\ UNCHANGED <<self, wk, INSTANCE_, rcc, pwr, exti, arg, ret, isr,
                   override, ticks, fires>>

\* enable_interrupts: OSEL and POL in one write of CR
EnOsel ==
    /\ At("en_osel")
    /\ rtc' = [rtc EXCEPT !.osel = wk.interrupt.output_selection,
                          !.pol = (wk.interrupt.polarity = 1)]
    /\ opLog' = opLog \o <<Write("CR.OSEL", wk.interrupt.output_selection),
                           Write("CR.POL", wk.interrupt.polarity = 1)>>
    /\ pc' = "en_wutr"
    /\ UNCHANGED <<self, wk, INSTANCE_, rcc, pwr, exti, arg, ret, isr,
                   override, ticks, fires>>

\* set_time: the reload value
EnWutr ==
    /\ At("en_wutr")
    /\ rtc' = [rtc EXCEPT !.wut = set_time(wk)]
    /\ Log("WUTR", set_time(wk))
    /\ pc' = "en_wute_on"
    /\ UNCHANGED <<self, wk, INSTANCE_, rcc, pwr, exti, arg, ret, isr,
                   override, ticks, fires>>

\* cr.modify(|_, w| w.wute().enabled())
EnWuteOn ==
    /\ At("en_wute_on")
    /\ rtc' = [rtc EXCEPT !.wute = TRUE]
    /\ Log("CR.WUTE", TRUE)
    /\ pc' = "en_wutf"
    /\ UNCHANGED <<self, wk, INSTANCE_, rcc, pwr, exti, arg, ret, isr,
                   override, ticks, fires>>

\* isr.modify(|_, w| w.wutf().bit(false))
EnWutf ==
    /\ At("en_wutf")
    /\ rtc' = [rtc EXCEPT !.wutf = FALSE]
    /\ Log("ISR.WUTF", FALSE)
    /\ pc' = "en_lock"
    /\ UNCHANGED <<self, wk, INSTANCE_, rcc, pwr, exti, arg, ret, isr,
                   override, ticks, fires>>

\* write_protection(Enable)
EnLock ==
    /\ At("en_lock")
    /\ WprWrite(LockKey)
    /\ pc' = "en_wait_l"
    /\ UNCHANGED <<self, wk, INSTANCE_, rcc, pwr, exti, arg, ret, isr,
                   override, ticks, fires>>

\* the busy-wait on WUTWF ends; enable returns
EnWaitL ==
    /\ At("en_wait_l")
    /\ ~rtc.wutwf
    /\ Return([op |-> "enable", sel |-> wk.sel, time |-> wk.time,
               en_interrupt |-> wk.en_interrupt, interrupt |-> wk.interrupt,
               wute0 |-> arg.wute0, wut0 |-> arg.wut0,
               wutie0 |-> arg.wutie0])
    /\ UNCHANGED <<self, wk, INSTANCE_, rtc, rcc, pwr, exti, opLog, isr,
                   override, ticks, fires>>

\* the RTC answers the WUTE bit: WUTWF is set while the timer is off
HwWutwf ==
    /\ rtc.wutwf # ~rtc.wute
    /\ rtc' = [rtc EXCEPT !.wutwf = ~rtc.wute]
    /\ UNCHANGED <<self, wk, INSTANCE_, rcc, pwr, exti, pc, arg, ret, opLog,
                   isr, override, ticks, fires>>

\* the running wakeup timer expires: WUTF is set and, with WUTIE, EXTI line
\* 20 sees its rising edge
HwWakeupFire ==
    /\ fires < MaxFires
    /\ rcc.rtcen
    /\ rtc.wute
    /\ fires' = fires + 1
    /\ rtc' = [rtc EXCEPT !.wutf = TRUE]
    /\ exti' = [exti EXCEPT !.pr20 = @ \/ (rtc.wutie /\ exti.mr20 /\ exti.tr20)]
    /\ UNCHANGED <<self, wk, INSTANCE_, rcc, pwr, pc, arg, ret, opLog, isr,
                   override, ticks>>

---------------------------------------------------------------------------
(* #[interrupt] RTC_WKUP *)

IsrLog(reg, val) == Append(isr.log, [reg |-> reg, val |-> val])

\* the pending, unmasked interrupt preempts the foreground
IsrEnter ==
    /\ isr.pc = "idle"
    /\ exti.pr20
    /\ exti.nvic
    /\ isr' = [pc |-> "dispatch", log |-> <<>>, slot |-> INSTANCE_]
    /\ UNCHANGED <<self, wk, INSTANCE_, rtc, rcc, pwr, exti, pc, arg, ret,
                   opLog, override, ticks, fires>>

\* the handler without the call of the registered function
IsrDispatch_skips ==
    /\ isr.pc = "dispatch"
    /\ isr' = [isr EXCEPT !.pc = "clr_wutf"]
    /\ UNCHANGED <<self, wk, INSTANCE_, rtc, rcc, pwr, exti, pc, arg, ret,
                   opLog, override, ticks, fires>>

\* match INSTANCE: None => {}, Some(_function) => _function()
IsrDispatch ==
    /\ isr.pc = "dispatch"
    /\ isr' = [isr EXCEPT !.pc = "clr_wutf",
                          !.log = IF INSTANCE_ = NoHandler THEN isr.log
                                  ELSE IsrLog("call", INSTANCE_)]
    /\ UNCHANGED <<self, wk, INSTANCE_, rtc, rcc, pwr, exti, pc, arg, ret,
                   opLog, override, ticks, fires>>

\* the handler clearing the flag with a write of the whole register: the INIT
\* bit is written as zero
IsrClrWutf_write ==
    /\ isr.pc = "clr_wutf"
    /\ rtc' = [rtc EXCEPT !.wutf = FALSE, !.init = FALSE]
    /\ isr' = [isr EXCEPT !.pc = "clr_pr20", !.log = IsrLog("ISR.WUTF", 0)]
    /\ UNCHANGED <<self, wk, INSTANCE_, rcc, pwr, exti, pc, arg, ret, opLog,
                   override, ticks, fires>>

\* (*RTC::PTR).isr.modify(|_, w| w.wutf().clear_bit())
IsrClrWutf ==
    /\ isr.pc = "clr_wutf"
    /\ rtc' = [rtc EXCEPT !.wutf = FALSE]
    /\ isr' = [isr EXCEPT !.pc = "clr_pr20", !.log = IsrLog("ISR.WUTF", 0)]
    /\ UNCHANGED <<self, wk, INSTANCE_, rcc, pwr, exti, pc, arg, ret, opLog,
                   override, ticks, fires>>

\* (*EXTI::PTR).pr1.modify(|_, w| w.pr20().set_bit()): writing 1 clears the
\* pending bit; the handler returns
IsrClrPr20 ==
    /\ isr.pc = "clr_pr20"
    /\ exti' = [exti EXCEPT !.pr20 = FALSE]
    /\ isr' = [isr EXCEPT !.pc = "idle", !.log = IsrLog("EXTI.PR1.PR20", 1)]
    /\ UNCHANGED <<self, wk, INSTANCE_, rtc, rcc, pwr, pc, arg, ret, opLog,
                   override, ticks, fires>>

---------------------------------------------------------------------------
(* The codec applied to one value (datetime.rs) *)

\* the values the codec is for: two decimal digits
BcdDomain == 0..99

\* bcd_encode(x): the Bcd it returns is kept for the decode
BcdEncode(x) ==
    /\ Call("bcd_decode", [op |-> "bcd", x |-> x, bcd |-> bcd_encode(x)])
    /\ UNCHANGED <<self, wk, INSTANCE_, rtc, rcc, pwr, exti, isr, override,
                   ticks, fires>>

\* bcd_decode of the Bcd the encode returned
BcdDecode ==
    /\ At("bcd_decode")
    /\ Return([op |-> "bcd", x |-> arg.x, bcd |-> arg.bcd,
               back |-> bcd_decode(arg.bcd)])
    /\ UNCHANGED <<self, wk, INSTANCE_, rtc, rcc, pwr, exti, opLog, isr,
                   override, ticks, fires>>

---------------------------------------------------------------------------
(* Specifications *)

StartClockSteps ==
    \/ StartClock \/ ScOscOn \/ ScOscWait \/ ScPwren \/ ScDbp \/ ScDbpWait
    \/ ScBdrst \/ ScRtcsel \/ ScFmt \/ HwOscReady

ModifySteps ==
    \/ MKey0 \/ MKey1 \/ MInitChk \/ MInitSet \/ MInitWait \/ MBody
    \/ MExitChk \/ MExitClr \/ MExitWait \/ MLock \/ HwInitAck

EnableSteps ==
    \/ Enable \/ EnWuteOff \/ EnWaitW \/ EnKey0 \/ EnKey1 \/ EnInt \/ EnOsel
    \/ EnWutr \/ EnWuteOn \/ EnWutf \/ EnLock \/ EnWaitL \/ HwWutwf

IsrSteps ==
    \/ HwWakeupFire \/ IsrEnter \/ IsrDispatch \/ IsrClrWutf \/ IsrClrPr20

\* the clock configurator: source, prescalers, start_clock
NextClock ==
    \/ \E src \in ClockSource : SetClockSource(src)
    \/ \E a \in 0..MaxPredivA, b \in 0..MaxPredivS : SetPrescalers(a, b)
    \/ StartClockSteps
    \/ ModifySteps

SpecClock == Init /\ [][NextClock]_vars

\* the calendar: start_clock with the default source, set_time, set_date,
\* time(), and the running clock
NextCalendar ==
    \/ StartClockSteps
    \/ ModifySteps
    \/ \E t \in Times : SetTime(t)
    \/ \E d \in Dates : SetDate(d)
    \/ Time
    \/ TimeStep
    \/ Tick

SpecCalendar == Init /\ [][NextCalendar]_vars

\* the wakeup timer: the builder and enable
NextWakeup ==
    \/ ModifySteps
    \/ GetWakeupManager
    \/ \E e \in BOOLEAN : SetInterrupt(e)
    \/ \E r \in Reloads : SetCounter(r)
    \/ \E d \in WakeupRtcDivision : SetClockDivision(d)
    \/ EnableSteps

SpecWakeup == Init /\ [][NextWakeup]_vars

\* the wakeup interrupt: the started clock, the routed timer, the callback
\* slot and the handler
NextInterrupt ==
    \/ StartClockSteps
    \/ ModifySteps
    \/ GetWakeupManager
    \/ \E i \in RtcInterrupts : ConfigureInterrupt(i)
    \/ \E e \in BOOLEAN : SetInterrupt(e)
    \/ \E h \in Handlers : SetInterruptHandler(h)
    \/ EnableSteps
    \/ IsrSteps

SpecInterrupt == Init /\ [][NextInterrupt]_vars

\* every operation that writes the RTC: start_clock, set_time, set_date and
\* the wakeup enable, with and without interrupt routing
Next ==
    \/ StartClockSteps
    \/ ModifySteps
    \/ \E t \in Times : SetTime(t)
    \/ \E d \in Dates : SetDate(d)
    \/ GetWakeupManager
    \/ \E e \in BOOLEAN : SetInterrupt(e)
    \/ EnableSteps

Spec == Init /\ [][Next]_vars

\* the codec alone: encode, then decode, of every value of its domain
NextCodec ==
    \/ \E x \in BcdDomain : BcdEncode(x)
    \/ BcdDecode

SpecCodec == Init /\ [][NextCodec]_vars

\* set_time on the calendar as reset leaves it, then time(), the clock
\* standing still
NextTimeRoundTrip ==
    \/ ModifySteps
    \/ (pc = "idle" /\ rtc.tr = TrReset /\ \E t \in ValidTimes : SetTime(t))
    \/ Time
    \/ TimeStep

SpecTimeRoundTrip == Init /\ [][NextTimeRoundTrip]_vars

\* set_date on the calendar as reset leaves it, then date()
NextDate ==
    \/ ModifySteps
    \/ (pc = "idle" /\ rtc.dr = DrReset
          /\ \E d \in ValidDates \cup ClampedDates : SetDate(d))
    \/ Date
    \/ DateStep

SpecDate == Init /\ [][NextDate]_vars

\* delay on the started clock: start_clock, set_time, delay, the clock
\* ticking
NextDelay ==
    \/ StartClockSteps
    \/ ModifySteps
    \/ \E t \in Times : SetTime(t)
    \/ \E s \in DelaySeconds : Delay(s)
    \/ TimeStep
    \/ DlStart
    \/ DlWrap
    \/ DlPoll
    \/ Tick

SpecDelay == Init /\ [][NextDelay]_vars

\* set_time and set_date on a peripheral found in or out of initialization
\* mode
NextWarm ==
    \/ ModifySteps
    \/ \E t \in Times : SetTime(t)
    \/ \E d \in Dates : SetDate(d)

SpecWarm == InitWarm /\ [][NextWarm]_vars

\* the foreground operations under the wakeup interrupt: start_clock,
\* set_time, set_date and enable, the timer firing and the handler running
\* between any two of their register accesses
NextPreempt ==
    \/ StartClockSteps
    \/ ModifySteps
    \/ \E t \in Times : SetTime(t)
    \/ \E d \in Dates : SetDate(d)
    \/ GetWakeupManager
    \/ \E e \in BOOLEAN : SetInterrupt(e)
    \/ \E h \in Handlers : SetInterruptHandler(h)
    \/ EnableSteps
    \/ IsrSteps

SpecPreempt == Init /\ [][NextPreempt]_vars

---------------------------------------------------------------------------
(* Properties *)

MutatingOps == {"start_clock", "set_time", "set_date", "enable"}

Returned(op) == pc = "idle" /\ isr.pc = "idle" /\ ret.op = op

\* the write-protected RTC fields: control register bits, prescaler, time,
\* date, wakeup reload
ProtectedFields ==
    {"CR.FMT", "CR.WUTE", "CR.WUTIE", "CR.OSEL", "CR.POL", "CR.WUCKSEL",
     "PRER", "TR", "DR", "WUTR"}

\* the running call has written 0xCA and then 0x53 to WPR before its i-th
\* write
UnlockedBefore(i) ==
    \E j \in 1..(i - 2) :
        /\ opLog[j].reg = "WPR" /\ opLog[j].val = UnlockKey0
        /\ opLog[j + 1].reg = "WPR" /\ opLog[j + 1].val = UnlockKey1

\* C1: in every mutating operation WPR receives 0xCA then 0x53 before the
\* operation's first write to a write-protected RTC field.
C1_UnlockBeforeProtectedWrite ==
    \A i \in 1..Len(opLog) :
        opLog[i].reg \in ProtectedFields => UnlockedBefore(i)

\* the fields modify brackets, and those enable writes after its own unlock
BracketedFields == {"PRER", "TR", "DR", "CR.WUCKSEL"}
UnlockedOnlyFields == {"WUTR", "CR.WUTIE"}

C3_AtRestAfterReturn ==
    (pc = "idle" /\ ret.op \in MutatingOps)
        => ~rtc.init /\ rtc.wpr = LockKey /\ rtc.lock = "locked"

C3_Witness ==
    /\ Returned("set_date")
    /\ rtc.dr # DrReset
    /\ rtc.wpr = LockKey

\* C4: time() returns the content TR has at one single instant of the call,
\* also when the calendar ticks between the reads of its fields.
C4_TimeIsSnapshot ==
    Returned("time")
        => \E r \in ret.seen : ret.time = BcdTimeTime(TimeRead(r))

\* C5: once set_prescalers(a, s) was called, set_clock_source leaves the
\* stored pair equal to (a, s), and a following start_clock writes (a, s)
\* to the prescaler register.
C5_OverrideSurvivesSelect ==
    override.set =>
        /\ self.prediv = [a |-> override.a, s |-> override.s]
        /\ Returned("start_clock") =>
              /\ rtc.prediv_a = override.a /\ rtc.prediv_s = override.s
              /\ \E i \in 1..Len(opLog) :
                    /\ opLog[i].reg = "PRER"
                    /\ opLog[i].val = [a |-> override.a, s |-> override.s]

C5_Witness ==
    /\ Returned("start_clock")
    /\ override.set /\ override.selected
    /\ self.source.kind = "HSE"
    /\ rtc.prediv_a = override.a /\ rtc.prediv_s = override.s

\* C6 as stated: set_prescalers and then set_clock_source leaves the selected
\* source's default pair, not the overridden one.
C6_SelectClobbersOverride ==
    (ret.op = "set_clock_source" /\ ret.overridden)
        => self.prediv = DefaultPrediv(ret.source.kind)

\* C6 amended: set_prescalers and then set_clock_source leaves the pair as
\* set_prescalers stored it (the select changes the source only), and
\* set_prescalers after a select stores the caller's pair: both orders keep
\* the caller's values.
C6_BothOrdersKeepOverride ==
    /\ (ret.op = "set_clock_source" /\ ret.overridden)
          => self.prediv = ret.before /\ self.source = ret.source
    /\ ret.op = "set_prescalers"
          => self.prediv = [a |-> ret.a, s |-> ret.s]

C6_Witness ==
    /\ ret.op = "set_clock_source" /\ ret.overridden
    /\ self.source = ret.source
    /\ self.prediv # DefaultPrediv(ret.source.kind)

\* C7: the default prescaler pair of each clock source satisfies
\* (a+1)*(s+1) = the nominal frequency of the source in Hz.
C7_DefaultsGiveNominalHz ==
    self.default => Frequency(self.prediv) = NominalHz(self.source.kind)

\* C8: after set_clock_division(d) and enable(), the wakeup clock-selection
\* field holds the code of d.
C8_WuckselIsDivision ==
    Returned("enable") => rtc.wucksel = ret.sel

HandlerRun(slot) ==
    (IF slot = NoHandler THEN <<>> ELSE <<[reg |-> "call", val |-> slot]>>)
        \o <<[reg |-> "ISR.WUTF", val |-> 0],
             [reg |-> "EXTI.PR1.PR20", val |-> 1]>>

\* C10: on each firing the handler calls the registered callback exactly once
\* if the slot is set and not at all if it is empty, then clears the
\* fired-flag, then the external-interrupt pending bit.
C10_HandlerCallsThenClears ==
    /\ (isr.pc = "idle" /\ isr.log # <<>>) => isr.log = HandlerRun(isr.slot)
    /\ isr.pc = "clr_pr20" =>
          isr.log = SubSeq(HandlerRun(isr.slot), 1, Len(HandlerRun(isr.slot)) - 1)
    /\ isr.pc = "clr_wutf" =>
          isr.log = SubSeq(HandlerRun(isr.slot), 1, Len(HandlerRun(isr.slot)) - 2)

C10_Witness ==
    /\ isr.pc = "idle"
    /\ isr.slot # NoHandler
    /\ Len(isr.log) = 3
    /\ ~exti.pr20

\* C11: for every x in 0..99, bcd_decode(bcd_encode(x)) = x, and the tens and
\* the units bcd_encode(x) yields are each one decimal digit.
C11_BcdRoundTrip ==
    /\ pc = "bcd_decode" =>
          arg.bcd.tens \in 0..9 /\ arg.bcd.units \in 0..9
    /\ Returned("bcd") =>
          /\ ret.back = ret.x
          /\ ret.bcd.tens \in 0..9 /\ ret.bcd.units \in 0..9

C11_Witness ==
    /\ Returned("bcd")
    /\ ret.x = 99
    /\ ret.bcd = [tens |-> 9, units |-> 9]
    /\ ret.back = 99

\* C12: for every valid Time t (hour 0..23, minute 0..59, second 0..59),
\* set_time(t) and then time(), with no tick of the clock in between, returns
\* exactly t.
C12_SetTimeReadsBack ==
    (Returned("time") /\ ret.after.op = "set_time" /\ ret.seen = {rtc.tr})
        => ret.time = ret.after.time

C12_Witness ==
    /\ Returned("time")
    /\ ret.after.op = "set_time"
    /\ ret.after.time = [hour |-> 12, minute |-> 30, second |-> 10]
    /\ ret.time = [hour |-> 12, minute |-> 30, second |-> 10]
    /\ ret.seen = {rtc.tr}

\* C13: for every valid Date d (day 1..31, month 1..12) with a year in
\* 2000..2154, set_date(d) and then date() returns the day, month and year of
\* d; the month tens are held in the one-bit field and the two year digits
\* fit their 4-bit fields.
C13_SetDateReadsBack ==
    (Returned("date") /\ ret.after.op = "set_date"
                      /\ ret.after.date.year \in Century..MaxYear)
        => /\ ret.date = ret.after.date
           /\ rtc.dr.mt \in BOOLEAN
           /\ rtc.dr.yt \in 0..15 /\ rtc.dr.yu \in 0..15

C13_Witness ==
    /\ Returned("date")
    /\ ret.after.op = "set_date"
    /\ ret.after.date = [day |-> 31, month |-> 12, year |-> MaxYear]
    /\ ret.date = [day |-> 31, month |-> 12, year |-> MaxYear]
    /\ rtc.dr.mt /\ rtc.dr.yt = 15 /\ rtc.dr.yu = 4

\* C14: for every Date with a year below 2000 or above 2154, set_date stores
\* the year offset 0 and the day and month as given, and a following date()
\* returns the year 2000 whatever the year given.
C14_OutOfRangeYearIs2000 ==
    /\ (Returned("set_date") /\ ret.date.year \notin Century..MaxYear)
          => /\ rtc.dr.yt = 0 /\ rtc.dr.yu = 0
             /\ rtc.dr.dt * 10 + rtc.dr.du = ret.date.day
             /\ (IF rtc.dr.mt THEN 10 ELSE 0) + rtc.dr.mu = ret.date.month
    /\ (Returned("date") /\ ret.after.op = "set_date"
                         /\ ret.after.date.year \notin Century..MaxYear)
          => ret.date = [ret.after.date EXCEPT !.year = Century]

C14_Witness ==
    /\ Returned("date")
    /\ ret.after.op = "set_date"
    /\ ret.after.date = [day |-> 31, month |-> 12, year |-> MaxYear + 1]
    /\ ret.date = [day |-> 31, month |-> 12, year |-> Century]
    /\ rtc.dr.yt = 0 /\ rtc.dr.yu = 0

\* C15: set_date writes the month-tens flag as true exactly when the month
\* is 10, 11 or 12, and as false for every month in 1..9.
C15_MonthTensFlag ==
    Returned("set_date")
        => /\ rtc.dr.mt = (ret.date.month \in {10, 11, 12})
           /\ \E i \in 1..Len(opLog) :
                 /\ opLog[i].reg = "DR"
                 /\ (opLog[i].val.m.tens > 0) = (ret.date.month \in {10, 11, 12})

C15_Witness ==
    /\ Returned("set_date")
    /\ ret.date.month = 10
    /\ rtc.dr.mt /\ rtc.dr.mu = 0

\* C16: after the wakeup enable the interrupt-enable bit is as the routing
\* was requested: if it was requested the bit is set and the output-selection
\* and polarity bits are those of the configured RtcInterrupt; if it was not,
\* the bit is clear whatever it was before the call.
C16_WutieFollowsRequest ==
    Returned("enable")
        => /\ rtc.wutie = ret.en_interrupt
           /\ ret.en_interrupt
                 => /\ rtc.osel = ret.interrupt.output_selection
                    /\ rtc.pol = (ret.interrupt.polarity = 1)

C16_Witness ==
    /\ Returned("enable")
    /\ ~ret.en_interrupt
    /\ ret.wutie0
    /\ ~rtc.wutie

\* C18: delay(seconds) with seconds > 86390 returns immediately: the call is
\* never past its first test (it reads no time and waits in no loop), and the
\* step that makes it returns in that same step and changes nothing of the
\* driver, the registers or the clock.
C18_LongDelayIsNoOp ==
    /\ [](arg.op = "delay" => arg.seconds <= DelayCeiling)
    /\ [][(ret'.op = "delay" /\ ret'.seconds > DelayCeiling /\ ret' # ret)
              => /\ pc = "idle" /\ pc' = "idle"
                 /\ UNCHANGED <<self, wk, INSTANCE_, rtc, rcc, pwr, exti, arg,
                                isr, override, ticks, fires>>]_vars

C18_Witness ==
    /\ Returned("delay")
    /\ ret.seconds = DelayCeiling + 1
    /\ rcc.rtcen
    /\ rtc.tr = TrOfSeconds(DayLength - 2)

\* C19: delay(seconds) with seconds <= 86390, on a started clock that ticks
\* once per second and wraps at midnight, eventually returns for every start
\* time, also when start time + seconds is 86400 or more.  A call that has
\* not returned is in one of delay's loops, and the loop has to be one that
\* can end: the polling loop ends when time() reads stop_sleep seconds or
\* more, and the clock reads at most 86399; a loop of the wrap branch tests
\* the time delay read at entry, so once its test has held it holds for ever.
C19_DelayCanReturn ==
    (arg.op = "delay" /\ rcc.rtcen)
        => /\ arg.next = "dl_poll" /\ pc # "dl_wrap"
                 => arg.stop_sleep < DayLength
           /\ pc = "dl_wrap" => ~arg.spun

\* the last register write of the running call
LastWrite == opLog[Len(opLog)]

\* C20: the enter step of initf requests initialization mode only when it is
\* not requested yet: with the INIT bit already set it writes nothing and
\* waits for nothing (modify goes from the unlock to its body); the exit step
\* clears the bit and waits only when the bit is set.
C20_InitRequestedOnlyIfClear ==
    /\ pc = "m_init_set" => ~rtc.init
    /\ pc = "m_init_wait" => LastWrite.reg = "ISR.INIT" /\ LastWrite.val
    /\ pc = "m_body" =>
          IF LastWrite.reg = "WPR"
          THEN LastWrite.val = UnlockKey1 /\ LastWrite.init /\ rtc.init
          ELSE /\ LastWrite.reg = "ISR.INIT" /\ LastWrite.val
               /\ ~LastWrite.init
    /\ pc = "m_exit_clr" => rtc.init
    /\ pc = "m_exit_wait" => LastWrite.reg = "ISR.INIT" /\ ~LastWrite.val
    /\ pc = "m_lock" =>
          /\ ~rtc.init
          /\ LastWrite.reg = "ISR.INIT" => ~LastWrite.val /\ ~rtc.initf
          /\ LastWrite.reg # "ISR.INIT" => ~LastWrite.init

C20_Witness ==
    /\ pc = "m_body"
    /\ arg.op = "set_time"
    /\ LastWrite.reg = "WPR" /\ LastWrite.val = UnlockKey1
    /\ rtc.init /\ rtc.initf

\* the places of the writes of field reg with value val in the log
WritesOf(reg, val) ==
    {i \in 1..Len(opLog) : opLog[i].reg = reg /\ opLog[i].val = val}

\* C21: in start_clock the backup-domain reset is asserted, then the source
\* is selected, then the RTC clock is enabled, then the reset is cleared: the
\* clock-select field is not written before the reset has been asserted, and
\* the source written is the one set_clock_source chose.
C21_ResetSelectEnableClear ==
    /\ \A i \in 1..Len(opLog) :
          opLog[i].reg = "RCC.BDCR.RTCSEL"
              => /\ opLog[i].val = self.source.kind
                 /\ \E j \in WritesOf("RCC.BDCR.BDRST", TRUE) : j < i
                 /\ \E k \in WritesOf("RCC.BDCR.RTCEN", TRUE) :
                       /\ i < k
                       /\ \E l \in WritesOf("RCC.BDCR.BDRST", FALSE) : k < l
    /\ \A l \in WritesOf("RCC.BDCR.BDRST", FALSE) :
          \E i \in 1..(l - 1) : opLog[i].reg = "RCC.BDCR.RTCSEL"
    /\ Returned("start_clock")
          => /\ rcc.rtcsel = self.source.kind /\ rcc.rtcen /\ ~rcc.bdrst
             /\ \E i \in 1..Len(opLog) : opLog[i].reg = "RCC.BDCR.RTCSEL"

C21_Witness ==
    /\ Returned("start_clock")
    /\ self.source.kind = "HSE"
    /\ rcc.rtcsel = "HSE" /\ rcc.rtcen /\ ~rcc.bdrst
    /\ WritesOf("RCC.BDCR.BDRST", TRUE) # {}

\* the write that switches the selected oscillator on
OscOnFields == {"RCC.CSR.LSION", "RCC.BDCR.LSEON", "RCC.CR.HSEON"}

\* the writes with which modify closes: leaving initialization mode, the lock
ClosingFields == {"ISR.INIT", "WPR"}

\* C22: start_clock waits on the ready flag of the selected source and of no
\* other; while that flag is not asserted start_clock has not returned and
\* has not gone past the wait: it has written nothing but the oscillator-on
\* bit (no backup-domain enable, no clock selection, no write of an RTC
\* control or prescaler field).  The prescaler write is made once per
\* start_clock and is the last write of a field start_clock configures: only
\* the closing writes of the protection protocol follow it.
C22_WaitsForSelectedSource ==
    /\ (arg.op = "start_clock" /\ ~SourceReady(self.source.kind))
          => /\ pc \in {"sc_osc_on", "sc_osc_wait"}
             /\ \A i \in 1..Len(opLog) : opLog[i].reg \in OscOnFields
             /\ Len(opLog) <= 1
    /\ Returned("start_clock")
          => /\ SourceReady(self.source.kind)
             /\ \E i \in 1..Len(opLog) :
                   /\ opLog[i].reg = "PRER"
                   /\ \A j \in 1..Len(opLog) :
                         /\ opLog[j].reg = "PRER" => j = i
                         /\ j > i => opLog[j].reg \in ClosingFields

C22_Witness ==
    /\ arg.op = "start_clock"
    /\ pc = "sc_osc_wait"
    /\ self.source.kind = "HSE"
    /\ rcc.hseon /\ ~rcc.hserdy
    /\ rcc.lsirdy
    /\ Len(opLog) = 1

\* C23: during the wakeup enable the reload register is written only after
\* the timer-enable bit has been cleared and the hardware has reported the
\* reload register writable (WUTWF set), and before the timer is enabled
\* again; the fired-flag is cleared after the timer is enabled again; enable
\* returns only after the hardware reports the reload register no longer
\* writable (WUTWF clear).
C23_ReloadWrittenWhileWritable ==
    /\ (arg.op = "enable" /\ pc = "en_wutr") => ~rtc.wute /\ rtc.wutwf
    /\ \A i \in WritesOf("WUTR", rtc.wut) :
          /\ \E j \in WritesOf("CR.WUTE", FALSE) : j < i
          /\ \A k \in WritesOf("CR.WUTE", TRUE) : i < k
    /\ \A f \in WritesOf("ISR.WUTF", FALSE) :
          \E k \in WritesOf("CR.WUTE", TRUE) : k < f
    /\ Returned("enable")
          => /\ ~rtc.wutwf /\ rtc.wute
             /\ \E i \in WritesOf("WUTR", ret.time) :
                   \E k \in WritesOf("CR.WUTE", TRUE) :
                       \E f \in WritesOf("ISR.WUTF", FALSE) : i < k /\ k < f

C23_Witness ==
    /\ arg.op = "enable" /\ pc = "en_wute_on"
    /\ arg.wute0
    /\ ~rtc.wute /\ rtc.wutwf
    /\ LastWrite.reg = "WUTR" /\ LastWrite.val = wk.time

\* the field a logged write went to holds the value written
Settled(w) ==
    CASE w.reg = "WPR" ->
           rtc.wpr = w.val /\ rtc.lock = WprLock(w.lock, w.val)
      [] w.reg = "ISR.INIT" -> rtc.init = w.val
      [] w.reg \in {"PRER", "TR", "DR", "CR.WUCKSEL"} ->
           ModifyBody(rtc, w.reg, w.val) = rtc
      [] w.reg = "WUTR" -> rtc.wut = w.val
      [] w.reg = "CR.WUTE" -> rtc.wute = w.val
      [] w.reg = "CR.WUTIE" -> rtc.wutie = w.val
      [] w.reg = "CR.FMT" -> rtc.fmt = w.val
      [] OTHER -> TRUE

\* the last write of the operation to each field
LastWrites ==
    {i \in 1..Len(opLog) :
        \A j \in 1..Len(opLog) : opLog[j].reg = opLog[i].reg => j <= i}

\* a step of RTC_WKUP changes the fired-flag and the pending bit and nothing
\* else of the registers or of the foreground
HandlerStepKeeps ==
    isr' # isr =>
        /\ rtc' = [rtc EXCEPT !.wutf = rtc'.wutf]
        /\ exti' = [exti EXCEPT !.pr20 = exti'.pr20]
        /\ UNCHANGED <<self, wk, rcc, pwr, pc, arg, ret, opLog>>

=============================================================================
